---------------------------- MODULE Spec2Model ----------------------------
(***************************************************************************)
(* Model of examples/find_roots.c: compute_vectors() drives three phases   *)
(* over two super-chunks (sc_x, sc_y): fill x, transform x into y, and     *)
(* scan y for sign changes with find_root(), carrying prev_value across    *)
(* chunk boundaries.                                                       *)
(*                                                                         *)
(* Numbers.  The program works on doubles.  The model keeps every sample   *)
(* as an exact integer in a fixed-point unit: an x sample v stands for     *)
(* v / (20 * NCHUNKS * CHUNKSIZE), so incx = 10/(NCHUNKS*CHUNKSIZE) is 200 *)
(* and the polynomial roots 1.35, 4.45, 8.5 are 27*T, 89*T, 170*T with     *)
(* T = NCHUNKS*CHUNKSIZE.  A y sample is the exact product of the three    *)
(* factors (unit cubed); its sign is the sign of the double the program    *)
(* computes.                                                               *)
(*                                                                         *)
(* NCHUNKS and CHUNKSIZE are #defines (500, 200000); the model draws them  *)
(* in Init from 1..MaxNChunks and 1..MaxChunkSize.                         *)
(***************************************************************************)
EXTENDS Integers, Sequences, FiniteSets

\* ------------------------------------------------------------------ bounds
MaxNChunks == 3
MaxChunkSize == 3
\* bounds of the scan-phase specification (ScanSpec)
MaxScanChunks == 2
MaxScanSize == 4
MaxScanSamples == 8
\* mantissa bits the truncation filter keeps (filters_meta[0] is 23 for a
\* 52-bit mantissa; scaled to the model's small integers)
PrecBits == 4

VARIABLES
    NCHUNKS,        \* #define NCHUNKS, drawn in Init
    CHUNKSIZE,      \* #define CHUNKSIZE, drawn in Init
    pc,             \* position in compute_vectors
    sc_x, sc_y,     \* the two super-chunks: [state, chunks]
    buffer_x,       \* static double buffer_x[CHUNKSIZE]
    buffer_y,       \* static double buffer_y[CHUNKSIZE]
    nchunk,         \* int nchunk
    dsize,          \* int dsize
    prev_value,     \* double prev_value
    i, pv, last_root_idx,   \* locals of find_root
    printed,        \* the roots printed by find_root, in order
    retval,         \* return value of compute_vectors (meaningful at pc = "done")
    last_cmp,       \* observer: <<yi, pv, outcome>> of the last test of line 110
    pv_updates,     \* observer: number of executions of line 199
    log             \* observer: the calls made on the super-chunks, in order

vars == <<NCHUNKS, CHUNKSIZE, pc, sc_x, sc_y, buffer_x, buffer_y, nchunk, dsize,
          prev_value, i, pv, last_root_idx, printed, retval, last_cmp,
          pv_updates, log>>

\* ----------------------------------------------------------- arithmetic
Abs(v) == IF v < 0 THEN -v ELSE v

RECURSIVE BitLen(_)
BitLen(n) == IF n = 0 THEN 0 ELSE 1 + BitLen(n \div 2)

RECURSIVE Pow2(_)
Pow2(k) == IF k = 0 THEN 1 ELSE 2 * Pow2(k - 1)

\* BLOSC_TRUNC_PREC: keep the leading bit and PrecBits mantissa bits of the
\* magnitude, zero the lower bits; the sign and the exponent are kept.
TruncPrec(v) ==
    LET a == Abs(v)
        zeroed == IF BitLen(a) - 1 > PrecBits THEN BitLen(a) - 1 - PrecBits ELSE 0
        t == (a \div Pow2(zeroed)) * Pow2(zeroed)
    IN  IF v < 0 THEN -t ELSE t

\* the filter stage applied to a whole buffer
Filter(buf) == [k \in DOMAIN buf |-> TruncPrec(buf[k])]

\* ------------------------------------------------- the chunked container
DecodeFailed == -1
InvalidIndex == -2

\* isize = CHUNKSIZE * sizeof(double)
isize == CHUNKSIZE * 8

\* blosc2_new_schunk
NewSchunk == [state |-> "live", chunks |-> <<>>]

\* blosc2_append_buffer: filter, compress, store at the next index
AppendBuffer(sc, buf) == [sc EXCEPT !.chunks = Append(@, Filter(buf))]

\* blosc2_decompress_chunk: the possible results for chunk n of sc: an
\* invalid index fails; a stored chunk decodes to its data or fails to decode
DecompressChunk(sc, n) ==
    IF n < 0 \/ n >= Len(sc.chunks)
    THEN {[dsize |-> InvalidIndex, data |-> <<>>]}
    ELSE {[dsize |-> isize, data |-> sc.chunks[n + 1]],
          [dsize |-> DecodeFailed, data |-> <<>>]}

\* blosc2_destroy_schunk
DestroySchunk(sc) == [state |-> "destroyed", chunks |-> <<>>]

\* one entry of the call log: the position of the caller, the operation, the
\* super-chunk, the chunk index, the buffer passed or returned, the result
Call(at, op, sc, n, buf, d) ==
    [at |-> at, op |-> op, sc |-> sc, n |-> n, buf |-> buf, dsize |-> d]

\* ------------------------------------------------------- pure functions
\* incx in the model's unit
IncX == 200

\* the roots 1.35, 4.45, 8.5 in twentieths
Roots == <<27, 89, 170>>

\* fill_buffer(x, nchunk) for a chunk size cs
FillBufferOf(cs, n) ==
    [k \in 1..cs |-> IncX * (n * cs + (k - 1))]

\* fill_buffer(x, nchunk)
fill_buffer(n) == FillBufferOf(CHUNKSIZE, n)

\* process_data(x, y)
process_data(x) ==
    LET T == NCHUNKS * CHUNKSIZE
    IN  [k \in 1..CHUNKSIZE |->
            ((x[k] - Roots[1] * T) * (x[k] - Roots[2] * T)) * (x[k] - Roots[3] * T)]

\* (v > 0) - (v < 0)
SignBroken(v) == (IF v >= 0 THEN 1 ELSE 0) - (IF v < 0 THEN 1 ELSE 0)
Sign(v) == (IF v > 0 THEN 1 ELSE 0) - (IF v < 0 THEN 1 ELSE 0)

\* the test of line 110
SignChange(yi, p) == Sign(yi) # Sign(p)

\* the test of line 111, negated: the previous sample was reported.  With
\* last_root_idx at its initial -1 it is also true of sample 0.
SuppressedNever(idx) == FALSE
Suppressed(idx) == last_root_idx = idx - 1

\* line 116: the value the next sample is compared with
NextPvStale(yi) == pv
NextPv(yi) == yi

\* the chunk index the transform phase asks sc_x for (line 166)
TransformIndexReversed == NCHUNKS - 1 - nchunk
TransformIndexOffByOne == nchunk + 1
TransformIndex == nchunk

\* the value returned when a decompression fails (lines 169, 191, 196)
ErrorReturnZero(d) == 0
ErrorReturn(d) == d

\* line 186: the seed of the scan
ScanSeedValue == buffer_y[1]

\* line 199: the value carried into the next chunk
CarryFirst == buffer_y[1]
CarryValue == buffer_y[CHUNKSIZE]

\* ------------------------------------------------------------------ Init
Zeros == [k \in 1..CHUNKSIZE |-> 0]

Init ==
    /\ NCHUNKS \in 1..MaxNChunks
    /\ CHUNKSIZE \in 1..MaxChunkSize
    /\ pc = "create"
    /\ sc_x = [state |-> "null", chunks |-> <<>>]
    /\ sc_y = [state |-> "null", chunks |-> <<>>]
    /\ buffer_x = Zeros
    /\ buffer_y = Zeros
    /\ nchunk = 0
    /\ dsize = 0
    /\ prev_value = 0
    /\ i = 0 /\ pv = 0 /\ last_root_idx = -1
    /\ printed = <<>>
    /\ retval = 0
    /\ last_cmp = <<0, 0, FALSE>>
    /\ pv_updates = 0
    /\ log = <<>>

scan_locals == <<i, pv, last_root_idx, printed, last_cmp>>

\* --------------------------------------------------------------- actions
\* lines 143-146, and the loop initialisation of line 150
NewSchunks ==
    /\ pc = "create"
    /\ sc_x' = NewSchunk
    /\ sc_y' = NewSchunk
    /\ log' = log \o <<Call(pc, "new", "x", 0, <<>>, 0), Call(pc, "new", "y", 0, <<>>, 0)>>
    /\ nchunk' = 0
    /\ pc' = "fill"
    /\ UNCHANGED <<NCHUNKS, CHUNKSIZE, buffer_x, buffer_y, dsize, prev_value,
                   scan_locals, retval, pv_updates>>

\* lines 150-154: one iteration of the fill loop
FillAppend ==
    /\ pc = "fill"
    /\ nchunk < NCHUNKS
    /\ buffer_x' = fill_buffer(nchunk)
    /\ sc_x' = AppendBuffer(sc_x, buffer_x')
    /\ log' = Append(log, Call(pc, "append", "x", Len(sc_x.chunks), buffer_x', 0))
    /\ nchunk' = nchunk + 1
    /\ UNCHANGED <<NCHUNKS, CHUNKSIZE, pc, sc_y, buffer_y, dsize, prev_value,
                   scan_locals, retval, pv_updates>>

\* line 150 (exit) and the loop initialisation of line 165
FillDone ==
    /\ pc = "fill"
    /\ ~(nchunk < NCHUNKS)
    /\ nchunk' = 0
    /\ pc' = "transform"
    /\ UNCHANGED <<NCHUNKS, CHUNKSIZE, sc_x, sc_y, buffer_x, buffer_y, dsize,
                   prev_value, scan_locals, retval, pv_updates, log>>

\* lines 165-170: decompress x-chunk nchunk, return dsize on failure
TransformDecompress ==
    /\ pc = "transform"
    /\ nchunk < NCHUNKS
    /\ \E r \in DecompressChunk(sc_x, TransformIndex) :
        /\ dsize' = r.dsize
        /\ log' = Append(log, Call(pc, "decompress", "x", TransformIndex, r.data, r.dsize))
        /\ IF r.dsize < 0
           THEN /\ retval' = ErrorReturn(r.dsize)
                /\ pc' = "done"
                /\ UNCHANGED buffer_x
           ELSE /\ buffer_x' = r.data
                /\ pc' = "process"
                /\ UNCHANGED retval
    /\ UNCHANGED <<NCHUNKS, CHUNKSIZE, sc_x, sc_y, buffer_y, nchunk, prev_value,
                   scan_locals, pv_updates>>

\* lines 171-172 and the increment of line 165
ProcessAppend ==
    /\ pc = "process"
    /\ buffer_y' = process_data(buffer_x)
    /\ sc_y' = AppendBuffer(sc_y, buffer_y')
    /\ log' = Append(log, Call(pc, "append", "y", Len(sc_y.chunks), buffer_y', 0))
    /\ nchunk' = nchunk + 1
    /\ pc' = "transform"
    /\ UNCHANGED <<NCHUNKS, CHUNKSIZE, sc_x, buffer_x, dsize, prev_value,
                   scan_locals, retval, pv_updates>>

\* line 165 (exit)
TransformDone ==
    /\ pc = "transform"
    /\ ~(nchunk < NCHUNKS)
    /\ pc' = "seed"
    /\ UNCHANGED <<NCHUNKS, CHUNKSIZE, sc_x, sc_y, buffer_x, buffer_y, nchunk,
                   dsize, prev_value, scan_locals, retval, pv_updates, log>>

\* line 186, and the loop initialisation of line 187
ScanSeed ==
    /\ pc = "seed"
    /\ prev_value' = ScanSeedValue
    /\ nchunk' = 0
    /\ pc' = "scan_y"
    /\ UNCHANGED <<NCHUNKS, CHUNKSIZE, sc_x, sc_y, buffer_x, buffer_y, dsize,
                   scan_locals, retval, pv_updates, log>>

\* lines 187-192: decompress y-chunk nchunk, return dsize on failure
ScanDecompressY ==
    /\ pc = "scan_y"
    /\ nchunk < NCHUNKS
    /\ \E r \in DecompressChunk(sc_y, nchunk) :
        /\ dsize' = r.dsize
        /\ log' = Append(log, Call(pc, "decompress", "y", nchunk, r.data, r.dsize))
        /\ IF r.dsize < 0
           THEN /\ retval' = ErrorReturn(r.dsize)
                /\ pc' = "done"
                /\ UNCHANGED buffer_y
           ELSE /\ buffer_y' = r.data
                /\ pc' = "scan_x"
                /\ UNCHANGED retval
    /\ UNCHANGED <<NCHUNKS, CHUNKSIZE, sc_x, sc_y, buffer_x, nchunk, prev_value,
                   scan_locals, pv_updates>>

\* lines 193-198 and 105-106: decompress x-chunk nchunk, return dsize on
\* failure, else enter find_root(buffer_x, buffer_y, prev_value)
ScanDecompressX ==
    /\ pc = "scan_x"
    /\ \E r \in DecompressChunk(sc_x, nchunk) :
        /\ dsize' = r.dsize
        /\ log' = Append(log, Call(pc, "decompress", "x", nchunk, r.data, r.dsize))
        /\ IF r.dsize < 0
           THEN /\ retval' = ErrorReturn(r.dsize)
                /\ pc' = "done"
                /\ UNCHANGED <<buffer_x, i, pv, last_root_idx>>
           ELSE /\ buffer_x' = r.data
                /\ pc' = "find_root"
                /\ pv' = prev_value
                /\ last_root_idx' = -1
                /\ i' = 0
                /\ UNCHANGED retval
    /\ UNCHANGED <<NCHUNKS, CHUNKSIZE, sc_x, sc_y, buffer_y, nchunk, prev_value,
                   printed, last_cmp, pv_updates>>

\* lines 108-117: one iteration of the loop of find_root
FindRootStep ==
    /\ pc = "find_root"
    /\ i < CHUNKSIZE
    /\ LET yi == buffer_y[i + 1]
       IN  /\ last_cmp' = <<yi, pv, SignChange(yi, pv)>>
           /\ IF SignChange(yi, pv) /\ ~Suppressed(i)
              THEN /\ printed' = Append(printed,
                                    [nchunk |-> nchunk, i |-> i, x |-> buffer_x[i + 1]])
                   /\ last_root_idx' = i
              ELSE UNCHANGED <<printed, last_root_idx>>
           /\ pv' = NextPv(yi)
    /\ i' = i + 1
    /\ UNCHANGED <<NCHUNKS, CHUNKSIZE, pc, sc_x, sc_y, buffer_x, buffer_y, nchunk,
                   dsize, prev_value, retval, pv_updates, log>>

\* line 108 (exit): find_root returns
FindRootReturn ==
    /\ pc = "find_root"
    /\ ~(i < CHUNKSIZE)
    /\ pc' = "carry"
    /\ UNCHANGED <<NCHUNKS, CHUNKSIZE, sc_x, sc_y, buffer_x, buffer_y, nchunk,
                   dsize, prev_value, scan_locals, retval, pv_updates, log>>

\* line 199 and the increment of line 187
ScanCarry ==
    /\ pc = "carry"
    /\ prev_value' = CarryValue
    /\ pv_updates' = pv_updates + 1
    /\ nchunk' = nchunk + 1
    /\ pc' = "scan_y"
    /\ UNCHANGED <<NCHUNKS, CHUNKSIZE, sc_x, sc_y, buffer_x, buffer_y, dsize,
                   scan_locals, retval, log>>

\* line 187 (exit)
ScanDone ==
    /\ pc = "scan_y"
    /\ ~(nchunk < NCHUNKS)
    /\ pc' = "destroy_x"
    /\ UNCHANGED <<NCHUNKS, CHUNKSIZE, sc_x, sc_y, buffer_x, buffer_y, nchunk,
                   dsize, prev_value, scan_locals, retval, pv_updates, log>>

\* line 209
DestroyX ==
    /\ pc = "destroy_x"
    /\ sc_x' = DestroySchunk(sc_x)
    /\ log' = Append(log, Call(pc, "destroy", "x", 0, <<>>, 0))
    /\ pc' = "destroy_y"
    /\ UNCHANGED <<NCHUNKS, CHUNKSIZE, sc_y, buffer_x, buffer_y, nchunk, dsize,
                   prev_value, scan_locals, retval, pv_updates>>

\* lines 210-211
DestroyY ==
    /\ pc = "destroy_y"
    /\ sc_y' = DestroySchunk(sc_y)
    /\ log' = Append(log, Call(pc, "destroy", "y", 0, <<>>, 0))
    /\ retval' = 0
    /\ pc' = "done"
    /\ UNCHANGED <<NCHUNKS, CHUNKSIZE, sc_x, buffer_x, buffer_y, nchunk, dsize,
                   prev_value, scan_locals, pv_updates>>

Next ==
    \/ NewSchunks
    \/ FillAppend
    \/ FillDone
    \/ TransformDecompress
    \/ ProcessAppend
    \/ TransformDone
    \/ ScanSeed
    \/ ScanDecompressY
    \/ ScanDecompressX
    \/ FindRootStep
    \/ FindRootReturn
    \/ ScanCarry
    \/ ScanDone
    \/ DestroyX
    \/ DestroyY

Spec == Init /\ [][Next]_vars

\* ------------------------------------------------ the scan phase alone
\* The state at line 184 for any transform: the y samples the transform phase
\* produced are drawn from YVals, everything else is as lines 143-173 leave it
\* (sc_x filled, sc_y holding the filtered y chunks, buffer_y still holding
\* the last y chunk as computed, buffer_x the last decompressed x chunk).
YVals == {-33, 0, 33}

\* the calls lines 143-173 make when no decompression fails, for nc chunks
\* of cs samples
TransformLog(nc, cs, xs, rawy) ==
    [j \in 1..(2 + 3 * nc) |->
        IF j = 1 THEN Call("create", "new", "x", 0, <<>>, 0)
        ELSE IF j = 2 THEN Call("create", "new", "y", 0, <<>>, 0)
        ELSE IF j <= 2 + nc
             THEN Call("fill", "append", "x", j - 3, FillBufferOf(cs, j - 3), 0)
        ELSE LET m == j - 3 - nc
                 k == m \div 2
             IN  IF m % 2 = 0
                 THEN Call("transform", "decompress", "x", k, xs[k + 1], cs * 8)
                 ELSE Call("process", "append", "y", k, rawy[k + 1], 0)]

InitScan ==
    /\ \E nc \in 1..MaxScanChunks, cs \in 1..MaxScanSize :
        /\ nc * cs <= MaxScanSamples
        /\ NCHUNKS = nc
        /\ CHUNKSIZE = cs
        /\ nchunk = nc
        /\ dsize = cs * 8
        /\ \E rawy \in [1..nc -> [1..cs -> YVals]] :
            LET xs == [k \in 1..nc |-> Filter(FillBufferOf(cs, k - 1))]
            IN  /\ sc_x = [state |-> "live", chunks |-> xs]
                /\ sc_y = [state |-> "live", chunks |-> [k \in 1..nc |-> Filter(rawy[k])]]
                /\ buffer_x = xs[nc]
                /\ buffer_y = rawy[nc]
                /\ log = TransformLog(nc, cs, xs, rawy)
    /\ pc = "seed"
    /\ prev_value = 0
    /\ i = 0 /\ pv = 0 /\ last_root_idx = -1
    /\ printed = <<>>
    /\ retval = 0
    /\ last_cmp = <<0, 0, FALSE>>
    /\ pv_updates = 0

NextScan ==
    \/ ScanSeed
    \/ ScanDecompressY
    \/ ScanDecompressX
    \/ FindRootStep
    \/ FindRootReturn
    \/ ScanCarry
    \/ ScanDone
    \/ DestroyX
    \/ DestroyY

ScanSpec == InitScan /\ [][NextScan]_vars

\* InitScan is a state Spec reaches when the transform is the polynomial
\* replaced by the drawn samples: its shape agrees with Spec's state at "seed"
SeedShape ==
    pc = "seed" =>
        /\ nchunk = NCHUNKS
        /\ Len(sc_x.chunks) = NCHUNKS /\ Len(sc_y.chunks) = NCHUNKS
        /\ Len(log) = 2 + 3 * NCHUNKS
        /\ buffer_x = sc_x.chunks[NCHUNKS]
        /\ Filter(buffer_y) = sc_y.chunks[NCHUNKS]
        /\ log = TransformLog(NCHUNKS, CHUNKSIZE, sc_x.chunks,
                              [k \in 1..NCHUNKS |-> log[2 + NCHUNKS + 2 * k].buf])
        /\ dsize = isize /\ prev_value = 0 /\ printed = <<>> /\ pv_updates = 0

\* ------------------------------------------------------------ observers
\* the calls made from one position of compute_vectors, in order
CallsAt(at) == SelectSeq(log, LAMBDA e : e.at = at)

\* the appends made to super-chunk s, in order
AppendsTo(s) == SelectSeq(log, LAMBDA e : e.op = "append" /\ e.sc = s)

\* number of calls op on super-chunk s among the first j - 1 calls
CountBefore(j, op, s) ==
    Cardinality({m \in 1..(j - 1) : log[m].op = op /\ log[m].sc = s})

\* the roots printed while scanning chunk n
ReportsOf(n) == SelectSeq(printed, LAMBDA r : r.nchunk = n)

Signs(y) == [k \in DOMAIN y |-> Sign(y[k])]

AllNonzero(y) == \A k \in DOMAIN y : y[k] # 0

\* sample k (1-based) of y differs in sign from the sample before it, the
\* sample before the first one being seed
ChangeAt(y, seed, k) == Sign(y[k]) # Sign(IF k = 1 THEN seed ELSE y[k - 1])

NumChanges(y, seed) == Cardinality({k \in DOMAIN y : ChangeAt(y, seed, k)})

\* find_root has returned for chunk nchunk; prev_value is still the value
\* it was called with
ChunkScanned == pc = "carry"

\* ---------------------------------------------------------------- claims

\* C1 (as stated): a y array of two chunks whose only sign change lies at
\* the chunk boundary (chunk 0 of one sign, chunk 1 of another) yields
\* exactly one printed root once both chunks are scanned.
C1_BoundaryPrecondition ==
    /\ NCHUNKS = 2
    /\ Len(sc_y.chunks) = 2
    /\ \E a, b \in {-1, 0, 1} :
        /\ a # b
        /\ \A k \in 1..CHUNKSIZE :
            Sign(sc_y.chunks[1][k]) = a /\ Sign(sc_y.chunks[2][k]) = b

C1_BoundaryContinuity ==
    (pc = "destroy_x" /\ C1_BoundaryPrecondition) => Len(printed) = 1

\* C2: a chunk of nonzero samples whose sign changes exactly once, between
\* samples c-1 and c (c >= 1), scanned with a prev_value of the sign of its
\* first sample, prints exactly one root, x[c].
C2_OneChangeAt(y, c) ==
    /\ AllNonzero(y)
    /\ \A k \in 2..Len(y) : ChangeAt(y, y[1], k) <=> (k = c + 1)

C2_SingleCrossing ==
    ChunkScanned =>
        \A c \in 1..(CHUNKSIZE - 1) :
            (C2_OneChangeAt(buffer_y, c) /\ Sign(prev_value) = Sign(buffer_y[1]))
                => ReportsOf(nchunk) =
                     <<[nchunk |-> nchunk, i |-> c, x |-> buffer_x[c + 1]]>>

C2_Witness ==
    /\ ChunkScanned
    /\ Signs(buffer_y) = <<-1, -1, 1, 1>>
    /\ Sign(prev_value) = -1
    /\ Len(ReportsOf(nchunk)) = 1
    /\ ReportsOf(nchunk)[1].i = 2

\* C4: the sign of a sample is -1, 0 or +1, a step between a zero and a
\* nonzero sample (either way) is a sign change, a step between two zeros
\* is not: stated on the last test of line 110.
C4_ZeroIsThirdSign ==
    LET yi == last_cmp[1]
        p == last_cmp[2]
        changed == last_cmp[3]
    IN  /\ Sign(yi) \in {-1, 0, 1}
        /\ (Sign(yi) = 0) <=> (yi = 0)
        /\ ((yi = 0) # (p = 0)) => changed
        /\ (yi = 0 /\ p = 0) => ~changed

C4_Witness ==
    /\ pc = "find_root"
    /\ i >= 2
    /\ last_cmp[1] > 0
    /\ last_cmp[2] = 0
    /\ last_cmp[3]

\* C9: the suppression rule is no exact root count.  (a) In a chunk of
\* nonzero samples with sign changes at two adjacent samples, fewer roots
\* are printed than there are sign changes.  (b) A chunk that goes from one
\* sign through a run of two or more zeros to the opposite sign, scanned
\* with a prev_value of its first sign, prints two roots for the one crossing.
C9_ZeroRunCrossing(y, seed) ==
    \E s \in {-1, 1}, a \in 1..Len(y), b \in 1..Len(y) :
        /\ a + 2 <= b /\ b < Len(y)
        /\ Sign(seed) = s
        /\ \A k \in 1..Len(y) :
            Sign(y[k]) = (IF k <= a THEN s ELSE IF k <= b THEN 0 ELSE -s)

C9_AdjacentChanges(y, seed) ==
    /\ AllNonzero(y)
    /\ seed # 0
    /\ \E k \in 1..(Len(y) - 1) : ChangeAt(y, seed, k) /\ ChangeAt(y, seed, k + 1)

C9_NotExactCount ==
    ChunkScanned =>
        /\ C9_AdjacentChanges(buffer_y, prev_value)
              => Len(ReportsOf(nchunk)) < NumChanges(buffer_y, prev_value)
        /\ C9_ZeroRunCrossing(buffer_y, prev_value)
              => Len(ReportsOf(nchunk)) = 2

C9_Witness ==
    /\ ChunkScanned
    /\ nchunk = 1
    /\ Signs(sc_y.chunks[1]) = <<-1, 1, -1, -1>>
    /\ Len(ReportsOf(0)) = 1
    /\ Signs(buffer_y) = <<-1, 0, 0, 1>>
    /\ Sign(prev_value) = -1
    /\ Len(ReportsOf(1)) = 2

\* C3 (as stated): when the scan phase starts (line 186 done, nothing
\* decompressed yet), prev_value is the first sample of y-chunk 0, either as
\* process_data computed it or as sc_y stores it.
C3_SeedIsFirstSampleOfFirstChunk ==
    (pc = "scan_y" /\ nchunk = 0 /\ pv_updates = 0 /\ CallsAt("scan_y") = <<>>)
        => prev_value \in {CallsAt("process")[1].buf[1], sc_y.chunks[1][1]}

\* C5: in each phase the chunks are handled in the order 0, 1, 2, ..., one
\* at a time: the k-th fill step appends fill_buffer(k-1); the k-th
\* transform step decompresses x-chunk k-1 and appends its element-wise
\* transform before the next decompression; the k-th scan step decompresses
\* y-chunk k-1 and x-chunk k-1, find_root runs over all CHUNKSIZE samples of
\* exactly these two buffers before the next chunk is decompressed, and
\* stored y-chunk k is the filtered transform of stored x-chunk k.
C5_ChunkOrder ==
    LET FA == CallsAt("fill")
        TD == CallsAt("transform")
        TA == CallsAt("process")
        SY == CallsAt("scan_y")
        SX == CallsAt("scan_x")
    IN  /\ \A k \in 1..Len(FA) : FA[k].n = k - 1 /\ FA[k].buf = fill_buffer(k - 1)
        /\ \A k \in 1..Len(TD) : TD[k].n = k - 1
        /\ \A k \in 1..Len(TA) : TA[k].n = k - 1 /\ TA[k].buf = process_data(TD[k].buf)
        /\ Len(TD) - Len(TA) \in {0, 1}
        /\ (Len(TD) > 0) => Len(FA) = NCHUNKS
        /\ \A k \in 1..Len(SY) : SY[k].n = k - 1
        /\ \A k \in 1..Len(SX) : SX[k].n = k - 1
        /\ Len(SY) - Len(SX) \in {0, 1}
        /\ (Len(SY) > 0) => Len(TA) = NCHUNKS
        /\ \A k \in 1..Len(printed) :
            /\ printed[k].nchunk < Len(SX)
            /\ k > 1 => \/ printed[k - 1].nchunk < printed[k].nchunk
                        \/ /\ printed[k - 1].nchunk = printed[k].nchunk
                           /\ printed[k - 1].i < printed[k].i
        /\ pc \in {"find_root", "carry"} =>
            /\ Len(SX) = nchunk + 1
            /\ buffer_y = SY[nchunk + 1].buf
            /\ buffer_x = SX[nchunk + 1].buf
            /\ buffer_y = Filter(process_data(buffer_x))
        /\ pc = "carry" => i = CHUNKSIZE
        /\ (pc \in {"scan_y", "scan_x"} /\ Len(SX) > 0) => i = CHUNKSIZE
        /\ (pc \in {"scan_y", "destroy_x"}) => Len(SX) = nchunk

C5_Witness ==
    /\ pc = "destroy_x"
    /\ NCHUNKS = 3
    /\ CHUNKSIZE = 3
    /\ Len(CallsAt("scan_x")) = 3
    /\ Len(printed) > 0

\* C6: a failed decompression is the last call of the run: compute_vectors
\* has returned its negative result, the failed chunk is the next one in
\* order (every chunk before it was transformed and appended, or scanned),
\* and nothing was appended or scanned after it.
C6_AbortOnDecodeFailure ==
    \A j \in 1..Len(log) :
        (log[j].op = "decompress" /\ log[j].dsize < 0) =>
            /\ j = Len(log)
            /\ pc = "done"
            /\ retval = log[j].dsize
            /\ retval < 0
            /\ log[j].at = "transform" =>
                /\ Len(CallsAt("process")) = log[j].n
                /\ Len(sc_y.chunks) = log[j].n
                /\ printed = <<>>
            /\ log[j].at \in {"scan_y", "scan_x"} =>
                /\ pv_updates = log[j].n
                /\ \A k \in 1..Len(printed) : printed[k].nchunk < log[j].n

C6_Witness ==
    /\ pc = "done"
    /\ retval < 0
    /\ NCHUNKS = 3
    /\ log[Len(log)].op = "decompress"
    /\ log[Len(log)].at = "scan_x"
    /\ log[Len(log)].n = 1
    /\ Len(sc_x.chunks) = 3

\* C7: the k-th append to a super-chunk gets index k-1; every decompression
\* compute_vectors issues comes after NCHUNKS appends to that super-chunk,
\* asks for an index in 0..NCHUNKS-1, is never refused as an invalid index,
\* and, when it decodes, returns the filtered buffer of the append of that
\* index.
C7_DenseIndices ==
    /\ \A s \in {"x", "y"} :
        \A k \in 1..Len(AppendsTo(s)) : AppendsTo(s)[k].n = k - 1
    /\ sc_x.state = "live" => Len(sc_x.chunks) = Len(AppendsTo("x"))
    /\ sc_y.state = "live" => Len(sc_y.chunks) = Len(AppendsTo("y"))
    /\ \A j \in 1..Len(log) :
        log[j].op = "decompress" =>
            /\ CountBefore(j, "append", log[j].sc) = NCHUNKS
            /\ log[j].n \in 0..(NCHUNKS - 1)
            /\ log[j].dsize # InvalidIndex
            /\ log[j].dsize >= 0 =>
                log[j].buf = Filter(AppendsTo(log[j].sc)[log[j].n + 1].buf)

C7_Witness ==
    /\ pc = "find_root"
    /\ NCHUNKS = 3
    /\ nchunk = 2
    /\ Len(AppendsTo("x")) = 3 /\ Len(AppendsTo("y")) = 3
    /\ log[Len(log)].op = "decompress" /\ log[Len(log)].n = 2
    /\ log[Len(log)].dsize = isize

\* C8: for k >= 1 find_root scans chunk k with prev_value equal to the last
\* sample of the decompressed y-chunk k-1; line 199 runs once per scanned
\* chunk, after its scan and before the next decompression.
C8_CarryOver ==
    LET SY == CallsAt("scan_y")
        ok == SelectSeq(SY, LAMBDA e : e.dsize >= 0)
    IN  /\ (pc \in {"find_root", "carry"} /\ nchunk >= 1) =>
            /\ prev_value = SY[nchunk].buf[CHUNKSIZE]
            /\ pc = "find_root" /\ i = 0 => pv = prev_value
        /\ pc = "scan_y" => pv_updates = Len(ok)
        /\ pc \in {"scan_x", "find_root", "carry"} => pv_updates = Len(ok) - 1
        /\ pc \in {"scan_y", "scan_x", "find_root", "carry"} => pv_updates = nchunk

C8_Witness ==
    /\ pc = "find_root"
    /\ nchunk = 2
    /\ CHUNKSIZE = 3
    /\ i = 0
    /\ pv_updates = 2
    /\ prev_value = sc_y.chunks[2][3]

\* C10 (as stated): each super-chunk is destroyed at most once, is not used
\* after it was destroyed, and both are destroyed whenever compute_vectors
\* has returned.
C10_Lifecycle ==
    /\ \A s \in {"x", "y"} : CountBefore(Len(log) + 1, "destroy", s) <= 1
    /\ \A j \in 1..Len(log) :
        log[j].op \in {"append", "decompress"} =>
            CountBefore(j, "destroy", log[j].sc) = 0
    /\ pc = "done" => sc_x.state = "destroyed" /\ sc_y.state = "destroyed"

=============================================================================
